---- MODULE Spec2Model ----
(***************************************************************************)
(* Kentucky county hazard maps (app.py): a Streamlit script that loads the *)
(* county boundaries once (cached), draws six columns of random hazard     *)
(* scores, buckets them into levels and colours, averages them into an     *)
(* overall score, flattens the geometry and renders one level chart and    *)
(* one top-20 table per dimension.  The script is re-run from the top on   *)
(* every interaction.                                                      *)
(*                                                                         *)
(* Numbers.  Scores are IEEE binary floats.  The model keeps the format    *)
(* but scales the precision down from 53 bits to Prec bits: a float is an  *)
(* integer count of units of 2^-Q, representable when it has at most Prec  *)
(* significant bits, and every arithmetic result is rounded to nearest,    *)
(* ties to even.  np.random.rand returns multiples of 2^-Prec in [0,1).    *)
(*                                                                         *)
(* Left out: the page text, the sidebar legend, the map view state and the *)
(* pydeck layers (lines 10-30, 180-216, 233-258): they read the frame and  *)
(* write nothing the script reads back.                                    *)
(***************************************************************************)
EXTENDS Integers, Sequences, FiniteSets, TLC

VARIABLES
    pc,        \* position of the script (or of the functions applied to a frame)
    source,    \* the county file behind the URL of load_counties
    mt,        \* the (fixed) algorithm of numpy's global generator
    rng,       \* state of numpy's global generator
    cache,     \* st.cache_data's store for load_counties: <<>> or <<frame>>
    fetches,   \* how many times gpd.read_file(url) has run
    counties,  \* the data frame `counties`: a sequence of rows (column -> value)
    hz,        \* index into HAZARDS of the scoring loop
    charts,    \* what plot_level_counts handed to st.bar_chart, per tab
    tables,    \* what st.dataframe showed, per tab
    runs,      \* completed runs of the script
    history,   \* <<>> or <<the frame at the end of the first completed run>>
    loads      \* <<>> or <<the frame the first call of load_counties returned>>

vars == <<pc, source, mt, rng, cache, fetches, counties, hz, charts, tables,
          runs, history, loads>>

-----------------------------------------------------------------------------
(* Bounds *)

Prec == 6
MaxCounties == 22
MaxRuns == 2
MaxDrawn == 2

-----------------------------------------------------------------------------
(* Floating point *)

Q == 2 * Prec + 3
One == 2 ^ Q
Step == 2 ^ (Q - Prec)

Abs(x) == IF x < 0 THEN 0 - x ELSE x

\* Distance between neighbouring floats at magnitude n/d (n, d > 0 or n = 0).
RECURSIVE Spacing(_, _, _)
Spacing(n, d, e) ==
    IF n < d * 2 ^ (Prec + e) THEN 2 ^ e ELSE Spacing(n, d, e + 1)

\* n/d >= 0 rounded to the nearest float, ties to the even neighbour.
RoundNearestEven(n, d) ==
    LET sp == Spacing(n, d, 0)
        q  == n \div (d * sp)
        r  == n - q * d * sp
    IN  IF 2 * r < d * sp THEN q * sp
        ELSE IF 2 * r > d * sp THEN (q + 1) * sp
        ELSE IF q % 2 = 0 THEN q * sp ELSE (q + 1) * sp

Fl(n, d) == IF n < 0 THEN 0 - RoundNearestEven(0 - n, d) ELSE RoundNearestEven(n, d)

FAdd(a, b) == Fl(a + b, 1)
FDiv(a, k) == Fl(a, k)

-----------------------------------------------------------------------------
(* Hazard definitions, scales and palettes *)

HAZARDS ==
    << <<"Flooding", "flood">>, <<"Winter Weather", "winter">>, <<"Wind", "wind">>,
       <<"Severe Weather", "severe">>, <<"Extreme Temperature", "extreme_temp">>,
       <<"Other", "other">> >>

HazardKeys == {HAZARDS[i][2] : i \in 1..Len(HAZARDS)}

score_col(key) == key \o "_score"
level_col(key) == key \o "_level"
color_col(key) == key \o "_color"

overall_score_to_level_le(score) ==
    IF score <= One \div 4 THEN "Very Low (White)"
    ELSE IF score <= One \div 2 THEN "Low (Green)"
    ELSE IF score <= (3 * One) \div 4 THEN "Elevated (Yellow)"
    ELSE "High (Red)"

overall_score_to_level(score) ==
    IF score < One \div 4 THEN "Very Low (White)"
    ELSE IF score < One \div 2 THEN "Low (Green)"
    ELSE IF score < (3 * One) \div 4 THEN "Elevated (Yellow)"
    ELSE "High (Red)"

OVERALL_LEVELS_ORDER ==
    <<"Very Low (White)", "Low (Green)", "Elevated (Yellow)", "High (Red)">>

OVERALL_COLOR_MAP ==
    "Very Low (White)" :> <<255, 255, 255>> @@
    "Low (Green)" :> <<0, 128, 0>> @@
    "Elevated (Yellow)" :> <<255, 255, 0>> @@
    "High (Red)" :> <<255, 0, 0>>

hazard_score_to_level_swapped(score) ==
    IF score < FDiv(2 * One, 3) THEN "Medium"
    ELSE IF score < FDiv(One, 3) THEN "Low"
    ELSE "High"

hazard_score_to_level(score) ==
    IF score < FDiv(One, 3) THEN "Low"
    ELSE IF score < FDiv(2 * One, 3) THEN "Medium"
    ELSE "High"

HAZARD_LEVELS_ORDER == <<"Low", "Medium", "High">>

HAZARD_COLOR_MAPS ==
    "flood" :> ("Low" :> <<198, 239, 206>> @@ "Medium" :> <<120, 200, 140>> @@
                "High" :> <<0, 100, 0>>) @@
    "winter" :> ("Low" :> <<198, 219, 239>> @@ "Medium" :> <<91, 155, 213>> @@
                 "High" :> <<0, 70, 140>>) @@
    "wind" :> ("Low" :> <<221, 214, 235>> @@ "Medium" :> <<165, 105, 189>> @@
               "High" :> <<88, 24, 69>>) @@
    "severe" :> ("Low" :> <<252, 199, 191>> @@ "Medium" :> <<244, 96, 96>> @@
                 "High" :> <<153, 0, 0>>) @@
    "extreme_temp" :> ("Low" :> <<0, 112, 192>> @@ "Medium" :> <<255, 192, 0>> @@
                       "High" :> <<237, 125, 49>>) @@
    "other" :> ("Low" :> <<230, 230, 230>> @@ "Medium" :> <<160, 160, 160>> @@
                "High" :> <<90, 90, 90>>)

-----------------------------------------------------------------------------
(* Data frame operations *)

\* df[col]
Column(df, col) == [i \in 1..Len(df) |-> df[i][col]]

\* df[col] = vals  (adds the column or overwrites it)
WithColumn(df, col, vals) ==
    [i \in 1..Len(df) |->
        [c \in DOMAIN df[i] \cup {col} |-> IF c = col THEN vals[i] ELSE df[i][c]]]

\* Series.map(dict): a value that is no key of the dict maps to NaN (here <<>>).
MapDict(series, dict) ==
    [i \in 1..Len(series) |->
        IF series[i] \in DOMAIN dict THEN dict[series[i]] ELSE <<>>]

\* Lines 156-157: the level and colour columns of one hazard.
HazardLevelAndColor(df, key) ==
    LET d1 == WithColumn(df, level_col(key),
                  [i \in 1..Len(df) |-> hazard_score_to_level(df[i][score_col(key)])])
    IN  WithColumn(d1, color_col(key),
                   MapDict(Column(d1, level_col(key)), HAZARD_COLOR_MAPS[key]))

\* Lines 155-157: one pass of the scoring loop, given the drawn scores.
ScoreHazard(df, key, scores) ==
    HazardLevelAndColor(WithColumn(df, score_col(key), scores), key)

score_cols == [i \in 1..Len(HAZARDS) |-> score_col(HAZARDS[i][2])]

\* The float sum of row[cols[1..n]], added left to right from 0.0 (numpy's
\* add.reduce over an axis of six elements).
RECURSIVE RowSum(_, _, _)
RowSum(row, cols, n) ==
    IF n = 0 THEN 0 ELSE FAdd(RowSum(row, cols, n - 1), row[cols[n]])

RowTotal(row, cols) == RowSum(row, cols, Len(cols))

RowMeanDropLast(row, cols) == FDiv(RowSum(row, cols, Len(cols) - 1), Len(cols) - 1)

\* DataFrame.mean(axis=1) for one row: the float sum divided by the count.
RowMean(row, cols) == FDiv(RowSum(row, cols, Len(cols)), Len(cols))

\* Lines 160-163.
WithOverall(df) ==
    LET d1 == WithColumn(df, "overall_score",
                  [i \in 1..Len(df) |-> RowMean(df[i], score_cols)])
        d2 == WithColumn(d1, "overall_level",
                  [i \in 1..Len(df) |-> overall_score_to_level(d1[i]["overall_score"])])
    IN  WithColumn(d2, "overall_color",
                   MapDict(Column(d2, "overall_level"), OVERALL_COLOR_MAP))

-----------------------------------------------------------------------------
(* Geometry *)

\* A closed ring: the first vertex repeated at the end.
Ring(v) == <<v, v + 1, v + 2, v>>

Polygon(ext, holes) ==
    [geom_type |-> "Polygon", exterior |-> ext, interiors |-> holes, geoms |-> <<>>]

MultiPolygon(polys) ==
    [geom_type |-> "MultiPolygon", exterior |-> <<>>, interiors |-> <<>>, geoms |-> polys]

Point == [geom_type |-> "Point", exterior |-> <<>>, interiors |-> <<>>, geoms |-> <<>>]

geometry_to_coordinates_with_holes(geom) ==
    IF geom.geom_type = "Polygon" THEN <<geom.exterior>> \o geom.interiors
    ELSE IF geom.geom_type = "MultiPolygon"
         THEN [i \in 1..Len(geom.geoms) |-> geom.geoms[i].exterior]
    ELSE <<>>

geometry_to_coordinates(geom) ==
    IF geom.geom_type = "Polygon" THEN <<geom.exterior>>
    ELSE IF geom.geom_type = "MultiPolygon"
         THEN [i \in 1..Len(geom.geoms) |-> geom.geoms[i].exterior]
    ELSE <<>>

\* Line 177.
WithCoordinates(df) ==
    WithColumn(df, "coordinates",
               [i \in 1..Len(df) |-> geometry_to_coordinates(df[i]["geometry"])])

-----------------------------------------------------------------------------
(* Scoring of one row of supplied scores: lines 156-163 applied to a frame *)
(* whose six score columns are given.                                      *)

\* The floats np.random.rand can return.
RandGrid == {k * Step : k \in 0..(2 ^ Prec - 1)}

OverallCuts == <<One \div 4, One \div 2, (3 * One) \div 4>>
HazardCuts == <<FDiv(One, 3), FDiv(2 * One, 3)>>
AllCuts == {OverallCuts[i] : i \in 1..3} \cup {HazardCuts[i] : i \in 1..2}

GridFloor(x) == (x \div Step) * Step

\* The cut points, their grid neighbours, and the ends of [0,1).
EdgeScores ==
    AllCuts \cup {GridFloor(c - 1) : c \in AllCuts}
            \cup {GridFloor(c + Step - 1) : c \in AllCuts} \cup {0, One - Step}

OutOfRange == {0 - One, 0 - Step, One, One + 2 * Step, 2 * One}

InRange(s) == 0 <= s /\ s < One

SuppliedRow(s0, s1, m) ==
    [c \in {"GEOID", "NAME", "geometry"} \cup {score_cols[i] : i \in 1..Len(HAZARDS)} |->
        IF c \in {"GEOID", "NAME"} THEN 1
        ELSE IF c = "geometry" THEN Polygon(Ring(1), <<>>)
        ELSE IF \E i \in 1..m : score_cols[i] = c THEN s0 ELSE s1]

Idle ==
    /\ source = <<>>
    /\ mt = [a |-> 1, c |-> 1]
    /\ rng = 0
    /\ cache = <<>>
    /\ fetches = 0
    /\ hz = 0
    /\ charts = <<>>
    /\ tables = <<>>
    /\ runs = 0
    /\ history = <<>>
    /\ loads = <<>>

InitRow ==
    /\ Idle
    /\ pc = "row_levels"
    /\ \E s0 \in RandGrid, s1 \in EdgeScores \cup OutOfRange, m \in 0..Len(HAZARDS) :
           counties = <<SuppliedRow(s0, s1, m)>>

RECURSIVE AllHazardLevels(_, _)
AllHazardLevels(df, n) ==
    IF n = 0 THEN df
    ELSE HazardLevelAndColor(AllHazardLevels(df, n - 1), HAZARDS[n][2])

RowLevels ==
    /\ pc = "row_levels"
    /\ counties' = AllHazardLevels(counties, Len(HAZARDS))
    /\ pc' = "row_overall"
    /\ UNCHANGED <<source, mt, rng, cache, fetches, hz, charts, tables, runs,
                   history, loads>>

RowOverall ==
    /\ pc = "row_overall"
    /\ counties' = WithOverall(counties)
    /\ pc' = "row_done"
    /\ UNCHANGED <<source, mt, rng, cache, fetches, hz, charts, tables, runs,
                   history, loads>>

NextRow == RowLevels \/ RowOverall

SpecRow == InitRow /\ [][NextRow]_vars

-----------------------------------------------------------------------------
(* Charts and tables *)

TopN == 20

\* Series.value_counts(): one count per value that occurs.
value_counts(series) ==
    [v \in {series[i] : i \in 1..Len(series)} |->
        Cardinality({i \in 1..Len(series) : series[i] = v})]

\* .reindex(order): one entry per label of order, in that order; a label with
\* no count gets NaN (here <<>>, a present count n is <<n>>).
reindex(counts, order) ==
    [i \in 1..Len(order) |->
        [label |-> order[i],
         value |-> IF order[i] \in DOMAIN counts THEN <<counts[order[i]]>> ELSE <<>>]]

\* .fillna(0).astype(int)
fillna_astype_int(entries) ==
    [i \in 1..Len(entries) |->
        [label |-> entries[i].label,
         count |-> IF entries[i].value = <<>> THEN 0 ELSE entries[i].value[1]]]

RECURSIVE PresentOnly(_, _)
PresentOnly(entries, n) ==
    IF n = 0 THEN <<>>
    ELSE IF entries[n].value = <<>> THEN PresentOnly(entries, n - 1)
    ELSE Append(PresentOnly(entries, n - 1),
                [label |-> entries[n].label, count |-> entries[n].value[1]])

plot_level_counts_dropna(df, lcol, order) ==
    LET e == reindex(value_counts(Column(df, lcol)), order) IN PresentOnly(e, Len(e))

\* Lines 219-227: the series handed to st.bar_chart.
plot_level_counts(df, lcol, order) ==
    fillna_astype_int(reindex(value_counts(Column(df, lcol)), order))

\* df[[NAME, level, score]]; `row` is the position the row had in df, kept so
\* that a table row can be traced to its frame row (the code's index, which
\* reset_index(drop=True) finally discards).
Project(df, lcol, scol) ==
    [i \in 1..Len(df) |->
        [NAME |-> df[i]["NAME"], level |-> df[i][lcol], score |-> df[i][scol], row |-> i]]

\* .drop_duplicates(subset=["NAME"]): the first row of each NAME, in order.
RECURSIVE drop_duplicates(_, _)
drop_duplicates(t, n) ==
    IF n = 0 THEN <<>>
    ELSE IF \E j \in 1..(n - 1) : t[j].NAME = t[n].NAME
         THEN drop_duplicates(t, n - 1)
         ELSE Append(drop_duplicates(t, n - 1), t[n])

\* .sort_values(score, ascending=False), by insertion.  The default sort kind
\* is not stable: rows of equal score come out in an order the code does not
\* fix, here either their frame order (ties = "kept") or its reverse.
RECURSIVE sort_values_desc(_, _, _)
sort_values_desc(t, n, ties) ==
    IF n = 0 THEN <<>>
    ELSE LET s == sort_values_desc(t, n - 1, ties)
             p == Cardinality({i \in 1..Len(s) :
                      \/ s[i].score > t[n].score
                      \/ s[i].score = t[n].score /\ ties = "kept"})
         IN  SubSeq(s, 1, p) \o <<t[n]>> \o SubSeq(s, p + 1, Len(s))

\* .head(n)
head(t, n) == SubSeq(t, 1, IF Len(t) < n THEN Len(t) ELSE n)

\* Lines 283-289 and 313-319: the frame handed to st.dataframe.
top_table(df, lcol, scol, ties) ==
    LET d == drop_duplicates(Project(df, lcol, scol), Len(df))
    IN  head(sort_values_desc(d, Len(d), ties), TopN)

-----------------------------------------------------------------------------
(* The script: one run from line 46 to line 319, re-run on every interaction *)

SEED == 42

\* The generator: numpy's is a fixed deterministic algorithm (MT19937); the
\* model leaves the algorithm open (mt, chosen once) and keeps what the script
\* relies on: seeding fixes the state, each draw is a function of the state.
SeedSkipped(state, seed) == state

\* np.random.seed(seed): the new state depends on the seed alone.
SeedState(state, seed) == seed % 2 ^ Prec

GenNext(state) == (mt.a * state + mt.c) % 2 ^ Prec

\* The states after 1..n draws from `state`.
RECURSIVE Draws(_, _)
Draws(state, n) ==
    IF n = 0 THEN <<>>
    ELSE LET d == Draws(state, n - 1)
         IN  Append(d, GenNext(IF n = 1 THEN state ELSE d[n - 1]))

\* np.random.rand(n): n floats in [0,1).
rand(state, n) == [i \in 1..n |-> Draws(state, n)[i] * Step]

\* The county file: unique GEOID and NAME per Kentucky county; county j may
\* be stored as a two-part MultiPolygon, as a polygon with a hole or as a
\* Point; the file also holds counties of other states.
CountyGeometry(i, kind) ==
    IF kind = "multi"
        THEN MultiPolygon(<<Polygon(Ring(10 * i), <<>>), Polygon(Ring(10 * i + 5), <<>>)>>)
    ELSE IF kind = "hole" THEN Polygon(Ring(10 * i), <<Ring(10 * i + 5)>>)
    ELSE IF kind = "point" THEN Point
    ELSE Polygon(Ring(10 * i), <<>>)

SourceRow(statefp, i, geom) ==
    [c \in {"STATEFP", "GEOID", "NAME", "geometry", "crs"} |->
        IF c = "STATEFP" THEN statefp
        ELSE IF c = "geometry" THEN geom
        ELSE IF c = "crs" THEN "NAD83"
        ELSE i]

CountyFile(n, j, kind, others) ==
    [i \in 1..n |-> SourceRow("21", i, CountyGeometry(i, IF i = j THEN kind ELSE "plain"))]
    \o (IF others THEN <<SourceRow("47", 1, CountyGeometry(0, "plain"))>> ELSE <<>>)

\* gdf[gdf["STATEFP"] == "21"].copy()
RECURSIVE FilterState(_, _, _)
FilterState(gdf, statefp, n) ==
    IF n = 0 THEN <<>>
    ELSE IF gdf[n]["STATEFP"] = statefp
         THEN Append(FilterState(gdf, statefp, n - 1), gdf[n])
         ELSE FilterState(gdf, statefp, n - 1)

\* .to_crs(epsg=4326): NAD83 and WGS84 longitude/latitude name the same vertex.
to_crs(df) == WithColumn(df, "crs", [i \in 1..Len(df) |-> "EPSG:4326"])

\* One row per part of a multi-part geometry, the other columns repeated.
ExplodeRow(row) ==
    IF row["geometry"].geom_type = "MultiPolygon"
    THEN [p \in 1..Len(row["geometry"].geoms) |->
             [c \in DOMAIN row |->
                 IF c = "geometry" THEN row["geometry"].geoms[p] ELSE row[c]]]
    ELSE <<row>>

\* .explode(ignore_index=True)
RECURSIVE explode(_, _)
explode(df, n) ==
    IF n = 0 THEN <<>> ELSE explode(df, n - 1) \o ExplodeRow(df[n])

\* The body of load_counties (lines 38-43).
read_counties(gdf) ==
    LET ky == to_crs(FilterState(gdf, "21", Len(gdf))) IN explode(ky, Len(ky))

\* @st.cache_data: the call returns a copy of the stored value, so a column
\* the script adds to its copy leaves the stored value as it was.
StoreAfterWriteAliased(store, df) == IF store = <<>> THEN store ELSE <<df>>

StoreAfterWrite(store, df) == store

Dims == HazardKeys \cup {"overall"}

LevelsOrder(dim) == IF dim = "overall" THEN OVERALL_LEVELS_ORDER ELSE HAZARD_LEVELS_ORDER

Init ==
    /\ pc = "load"
    /\ \E n \in 1..MaxCounties, kind \in {"plain", "multi", "hole", "point"},
          others \in BOOLEAN :
          \E j \in {1, n} : source = CountyFile(n, j, kind, others)
    /\ mt \in [a : {5, 13}, c : {1, 7}]
    /\ rng \in {0, 1}
    /\ cache = <<>>
    /\ fetches = 0
    /\ counties = <<>>
    /\ hz = 0
    /\ charts = <<>>
    /\ tables = <<>>
    /\ runs = 0
    /\ history = <<>>
    /\ loads = <<>>

\* Line 46: counties = load_counties()
LoadCounties ==
    /\ pc = "load"
    /\ IF cache = <<>>
       THEN /\ cache' = <<read_counties(source)>>
            /\ fetches' = fetches + 1
       ELSE UNCHANGED <<cache, fetches>>
    /\ counties' = cache'[1]
    /\ loads' = IF loads = <<>> THEN <<counties'>> ELSE loads
    /\ pc' = "seed"
    /\ UNCHANGED <<source, mt, rng, hz, charts, tables, runs, history>>

\* Line 147: np.random.seed(42)
Seed ==
    /\ pc = "seed"
    /\ rng' = SeedState(rng, SEED)
    /\ hz' = 1
    /\ pc' = "score"
    /\ UNCHANGED <<source, mt, cache, fetches, counties, charts, tables, runs,
                   history, loads>>

\* Lines 150-157: one pass of the loop over HAZARDS.
ScoreLoop ==
    /\ pc = "score"
    /\ LET n == Len(counties)
       IN  /\ counties' = ScoreHazard(counties, HAZARDS[hz][2], rand(rng, n))
           /\ rng' = Draws(rng, n)[n]
    /\ cache' = StoreAfterWrite(cache, counties')
    /\ IF hz < Len(HAZARDS)
       THEN hz' = hz + 1 /\ pc' = pc
       ELSE hz' = 0 /\ pc' = "overall"
    /\ UNCHANGED <<source, mt, fetches, charts, tables, runs, history, loads>>

\* Lines 160-163.
Overall ==
    /\ pc = "overall"
    /\ counties' = WithOverall(counties)
    /\ cache' = StoreAfterWrite(cache, counties')
    /\ pc' = "coordinates"
    /\ UNCHANGED <<source, mt, rng, fetches, hz, charts, tables, runs, history, loads>>

\* Line 177.
Coordinates ==
    /\ pc = "coordinates"
    /\ counties' = WithCoordinates(counties)
    /\ cache' = StoreAfterWrite(cache, counties')
    /\ pc' = "render"
    /\ UNCHANGED <<source, mt, rng, fetches, hz, charts, tables, runs, history, loads>>

\* Lines 266-319: the seven tabs, each with its level chart and its table.
Render ==
    /\ pc = "render"
    /\ charts' = [d \in Dims |-> plot_level_counts(counties, level_col(d), LevelsOrder(d))]
    /\ \E ties \in {"kept", "reversed"} :
          tables' = [d \in Dims |-> top_table(counties, level_col(d), score_col(d), ties)]
    /\ history' = IF history = <<>> THEN <<counties>> ELSE history
    /\ runs' = runs + 1
    /\ pc' = "done"
    /\ UNCHANGED <<source, mt, rng, cache, fetches, counties, hz, loads>>

\* An interaction: Streamlit runs the script again from the top.
Rerun ==
    /\ pc = "done"
    /\ runs < MaxRuns
    /\ pc' = "load"
    /\ UNCHANGED <<source, mt, rng, cache, fetches, counties, hz, charts, tables,
                   runs, history, loads>>

Next == LoadCounties \/ Seed \/ ScoreLoop \/ Overall \/ Coordinates \/ Render \/ Rerun

Spec == Init /\ [][Next]_vars

-----------------------------------------------------------------------------
(* Coordinates, chart and table of a supplied frame: line 177, then          *)
(* plot_level_counts and the table of one hazard tab, on any frame with the  *)
(* columns they read.                                                        *)

GeometrySamples ==
    {CountyGeometry(1, kind) : kind \in {"plain", "multi", "hole", "point"}}

\* A level column may hold a value that is no label of the order passed in.
LevelSamples == {HAZARD_LEVELS_ORDER[i] : i \in 1..Len(HAZARD_LEVELS_ORDER)} \cup {"Extreme"}

SampleScore(level) ==
    IF level = "Medium" THEN One \div 2
    ELSE IF level = "High" THEN One - Step
    ELSE 0

FrameRow(name, geom, level) ==
    [c \in {"NAME", "geometry", "flood_level", "flood_score"} |->
        IF c = "NAME" THEN name
        ELSE IF c = "geometry" THEN geom
        ELSE IF c = "flood_level" THEN level
        ELSE SampleScore(level)]

FrameRows == {FrameRow(name, geom, level) :
                 name \in 1..2, geom \in GeometrySamples, level \in LevelSamples}

\* k rows of distinct further names, all polygons at the highest score.
TopRows(k) == [i \in 1..k |-> FrameRow(100 + i, CountyGeometry(i, "plain"), "High")]

InitFrame ==
    /\ Idle
    /\ pc = "frame_coordinates"
    /\ \E k \in {0, TopN}, n \in 1..MaxDrawn :
          \E rows \in [1..n -> FrameRows] : counties = TopRows(k) \o rows

FrameCoordinates ==
    /\ pc = "frame_coordinates"
    /\ counties' = WithCoordinates(counties)
    /\ pc' = "frame_chart"
    /\ UNCHANGED <<source, mt, rng, cache, fetches, hz, charts, tables, runs,
                   history, loads>>

FrameChart ==
    /\ pc = "frame_chart"
    /\ charts' = [d \in {"flood"} |->
                    plot_level_counts(counties, level_col(d), HAZARD_LEVELS_ORDER)]
    /\ pc' = "frame_table"
    /\ UNCHANGED <<source, mt, rng, cache, fetches, counties, hz, tables, runs,
                   history, loads>>

FrameTable ==
    /\ pc = "frame_table"
    /\ \E ties \in {"kept", "reversed"} :
          tables' = [d \in {"flood"} |->
                        top_table(counties, level_col(d), score_col(d), ties)]
    /\ pc' = "frame_done"
    /\ UNCHANGED <<source, mt, rng, cache, fetches, counties, hz, charts, runs,
                   history, loads>>

NextFrame == FrameCoordinates \/ FrameChart \/ FrameTable

SpecFrame == InitFrame /\ [][NextFrame]_vars

-----------------------------------------------------------------------------
(* Claims *)

Row == counties[1]
RowDone == pc = "row_done"
RowInRange == \A k \in HazardKeys : InRange(Row[score_col(k)])

CutsAtOrBelow(cuts, s) == Cardinality({i \in 1..Len(cuts) : cuts[i] <= s})

RECURSIVE ExactSum(_, _, _)
ExactSum(row, cols, n) ==
    IF n = 0 THEN 0 ELSE ExactSum(row, cols, n - 1) + row[cols[n]]

RowExactSum == ExactSum(Row, score_cols, Len(score_cols))

\* C1: a score in [0,1) gets the label whose position in the levels order is
\* the number of cut points <= the score (a score equal to a cut point goes
\* to the higher bucket), and the colour is the palette entry of that label;
\* this holds for the six hazard scales and for the overall stoplight scale.
C1_BucketIsCutCount ==
    RowDone =>
        /\ \A k \in HazardKeys :
              InRange(Row[score_col(k)]) =>
                  LET n == 1 + CutsAtOrBelow(HazardCuts, Row[score_col(k)])
                  IN  /\ Row[level_col(k)] = HAZARD_LEVELS_ORDER[n]
                      /\ Row[color_col(k)] = HAZARD_COLOR_MAPS[k][HAZARD_LEVELS_ORDER[n]]
        /\ InRange(Row["overall_score"]) =>
              LET n == 1 + CutsAtOrBelow(OverallCuts, Row["overall_score"])
              IN  /\ Row["overall_level"] = OVERALL_LEVELS_ORDER[n]
                  /\ Row["overall_color"] = OVERALL_COLOR_MAP[OVERALL_LEVELS_ORDER[n]]

\* A row of six scores of exactly 0.25: the overall score is 0.25, on the cut.
C1_Witness ==
    /\ RowDone
    /\ \A k \in HazardKeys : Row[score_col(k)] = One \div 4
    /\ Row["overall_score"] = One \div 4
    /\ Row["overall_level"] = "Low (Green)"
    /\ Row["flood_level"] = "Low"

\* C2 as claimed: a score outside [0,1) is rejected, no level label is returned.
C2_OutOfRangeRejected ==
    RowDone =>
        /\ \A k \in HazardKeys :
              ~InRange(Row[score_col(k)]) =>
                  ~(\E i \in 1..Len(HAZARD_LEVELS_ORDER) :
                        Row[level_col(k)] = HAZARD_LEVELS_ORDER[i])
        /\ ~InRange(Row["overall_score"]) =>
              ~(\E i \in 1..Len(OVERALL_LEVELS_ORDER) :
                    Row["overall_level"] = OVERALL_LEVELS_ORDER[i])

\* C2 amended: nothing is rejected; a negative score gets the first label and
\* a score >= 1 the last label of the scale, with that label's colour.
C2_OutOfRangeClamped ==
    RowDone =>
        /\ \A k \in HazardKeys :
              LET s == Row[score_col(k)]
                  l == IF s < 0 THEN "Low" ELSE "High"
              IN  ~InRange(s) =>
                      /\ Row[level_col(k)] = l
                      /\ Row[color_col(k)] = HAZARD_COLOR_MAPS[k][l]
        /\ LET s == Row["overall_score"]
               l == IF s < 0 THEN "Very Low (White)" ELSE "High (Red)"
           IN  ~InRange(s) =>
                   /\ Row["overall_level"] = l
                   /\ Row["overall_color"] = OVERALL_COLOR_MAP[l]

\* A row with a negative and a too-large hazard score, and one whose overall
\* score is itself >= 1.
C2_Witness ==
    /\ RowDone
    /\ Row["flood_score"] >= One
    /\ Row["flood_level"] = "High"
    /\ Row["overall_score"] >= One
    /\ Row["overall_level"] = "High (Red)"

\* C3 as claimed: overall_score is exactly the mean of the six hazard scores
\* (so six equal scores s give s), and overall_level is its 4-level bucket.
C3_ExactMean ==
    (RowDone /\ RowInRange) =>
        /\ Len(score_cols) * Row["overall_score"] = RowExactSum
        /\ Row["overall_level"] =
               OVERALL_LEVELS_ORDER[1 + CutsAtOrBelow(OverallCuts, Row["overall_score"])]

\* C3 amended: overall_score is the mean of the six hazard scores up to float
\* rounding (relative error at most 7 units of 2^-Prec; float64: 7 * 2^-53),
\* and overall_level is the 4-level bucket of overall_score.
C3_RoundedMean ==
    (RowDone /\ RowInRange) =>
        /\ 2 ^ Prec * Abs(Len(score_cols) * Row["overall_score"] - RowExactSum)
               <= 7 * RowExactSum
        /\ Row["overall_level"] =
               OVERALL_LEVELS_ORDER[1 + CutsAtOrBelow(OverallCuts, Row["overall_score"])]

\* Six equal scores whose float mean is not the score.
C3_Witness ==
    /\ RowDone
    /\ RowInRange
    /\ \A k \in HazardKeys : Row[score_col(k)] = Row["flood_score"]
    /\ Row["overall_score"] # Row["flood_score"]

\* C10: for a row of scores in [0,1), overall High (Red) needs a hazard at
\* High; six hazards at Low give overall Very Low or Low; six hazards at High
\* give overall Elevated or High.
C10_OverallBoundedByHazards ==
    (RowDone /\ RowInRange) =>
        /\ Row["overall_level"] = "High (Red)" =>
               \E k \in HazardKeys : Row[level_col(k)] = "High"
        /\ (\A k \in HazardKeys : Row[level_col(k)] = "Low") =>
               Row["overall_level"] \in {"Very Low (White)", "Low (Green)"}
        /\ (\A k \in HazardKeys : Row[level_col(k)] = "High") =>
               Row["overall_level"] \in {"Elevated (Yellow)", "High (Red)"}

\* Six hazards at High whose overall level is only Elevated.
C10_Witness ==
    /\ RowDone
    /\ RowInRange
    /\ \A k \in HazardKeys : Row[level_col(k)] = "High"
    /\ Row["overall_level"] = "Elevated (Yellow)"

-----------------------------------------------------------------------------
(* Claims about the script *)

ResultCols(d) == {score_col(d), level_col(d), color_col(d)}

\* C4: every completed run assigns the same (score, level, color) to every
\* row, for the six hazards and overall, as the first completed run did.
C4_SameResultEveryRun ==
    pc = "done" =>
        /\ Len(counties) = Len(history[1])
        /\ \A i \in 1..Len(counties) : \A d \in Dims : \A c \in ResultCols(d) :
               counties[i][c] = history[1][i][c]

\* A second run has completed.
C4_Witness == pc = "done" /\ runs = 2 /\ Len(counties) > 1

\* C5 as claimed: the loaded region set has no two rows with the same GEOID or
\* NAME, and the scoring loop makes one score record per (county, hazard).
C5_OneRowPerCounty ==
    cache # <<>> =>
        LET ky == cache[1]
            n  == Cardinality({r \in 1..Len(source) : source[r]["STATEFP"] = "21"})
        IN  /\ \A i, j \in 1..Len(ky) :
                   i # j => ky[i]["GEOID"] # ky[j]["GEOID"] /\ ky[i]["NAME"] # ky[j]["NAME"]
            /\ pc = "overall" => Len(counties) * Len(HAZARDS) = n * Len(HAZARDS)

Min(a, b) == IF a < b THEN a ELSE b

TableTop20(t, df, scol) ==
    LET names == {df[i]["NAME"] : i \in 1..Len(df)}
    IN  /\ Len(t) = Min(TopN, Cardinality(names))
        /\ \A i, j \in 1..Len(t) : i # j => t[i].NAME # t[j].NAME
        /\ \A i \in 1..(Len(t) - 1) : t[i].score >= t[i + 1].score
        /\ \A i \in 1..Len(df) :
               (\A k \in 1..Len(t) : t[k].NAME # df[i]["NAME"]) =>
                   df[i][scol] <= t[Len(t)].score

\* C6 as claimed: each tab's table has min(20, number of names) rows, no name
\* twice, scores non-increasing, and no county left out of it has a row that
\* scores strictly higher than the last row shown.
C6_TableIsTop20 ==
    pc = "done" => \A d \in Dims : TableTop20(tables[d], counties, score_col(d))

\* The same with one row per county: then the table is the top 20.
C6_Top20WithoutDuplicates ==
    (pc = "done" /\ \A i, j \in 1..Len(counties) :
                       i # j => counties[i]["NAME"] # counties[j]["NAME"])
        => \A d \in Dims : TableTop20(tables[d], counties, score_col(d))

-----------------------------------------------------------------------------
(* Claims about the chart, the table and the coordinates of a frame *)

FrameDone == pc = "frame_done"

RECURSIVE SumCounts(_, _)
SumCounts(entries, n) ==
    IF n = 0 THEN 0 ELSE SumCounts(entries, n - 1) + entries[n].count

RowsAtLevel(df, lcol, label) == {i \in 1..Len(df) : df[i][lcol] = label}

\* C7: plot_level_counts gives one count per label of `order`, in that order;
\* each count is the number of rows at that label (0 when there is none), and
\* the counts add up to the number of rows when every level is in `order`.
C7_OneCountPerLabel ==
    FrameDone =>
        LET ch == charts["flood"]
            order == HAZARD_LEVELS_ORDER
        IN  /\ Len(ch) = Len(order)
            /\ \A i \in 1..Len(ch) :
                   /\ ch[i].label = order[i]
                   /\ ch[i].count = Cardinality(RowsAtLevel(counties, "flood_level", order[i]))
            /\ (\A r \in 1..Len(counties) :
                    \E i \in 1..Len(order) : counties[r]["flood_level"] = order[i])
                   => SumCounts(ch, Len(ch)) = Len(counties)

\* Two rows at Low and none at Medium or High: the counts are (2, 0, 0).
C7_Witness ==
    /\ FrameDone
    /\ Len(charts["flood"]) = 3
    /\ charts["flood"][1].count = 2
    /\ charts["flood"][2].count = 0
    /\ charts["flood"][3].count = 0

InTable(i) == \E k \in 1..Len(tables["flood"]) : tables["flood"][k].row = i

FirstOfName(i) == \A j \in 1..(i - 1) : counties[j]["NAME"] # counties[i]["NAME"]

\* The first rows of other names that score above (at least) row i.
FirstRowsAbove(i, strictly) ==
    {j \in 1..Len(counties) :
        /\ j # i
        /\ FirstOfName(j)
        /\ \/ counties[j]["flood_score"] > counties[i]["flood_score"]
           \/ ~strictly /\ counties[j]["flood_score"] = counties[i]["flood_score"]}

RingsOfGeometry(i) ==
    LET g == counties[i]["geometry"]
        c == counties[i]["coordinates"]
    IN  /\ g.geom_type = "Polygon" => c = <<g.exterior>>
        /\ g.geom_type = "MultiPolygon" =>
               /\ Len(c) = Len(g.geoms)
               /\ \A p \in 1..Len(c) : c[p] = g.geoms[p].exterior
        /\ g.geom_type \notin {"Polygon", "MultiPolygon"} => c = <<>>

CountedInChart(i) ==
    \A k \in 1..Len(charts["flood"]) :
        charts["flood"][k].label = counties[i]["flood_level"] =>
            charts["flood"][k].count >= 1

EmptyRings(i) == counties[i]["geometry"].geom_type \notin {"Polygon", "MultiPolygon"}

\* C8 as claimed: the rings are the exterior of a Polygon, the exteriors of
\* the parts of a MultiPolygon, nothing for any other geometry; and a row with
\* no rings is still in the level counts and in the ranked table.
C8_EmptyRowInTable ==
    FrameDone =>
        \A i \in 1..Len(counties) :
            /\ RingsOfGeometry(i)
            /\ EmptyRings(i) => CountedInChart(i) /\ InTable(i)

\* C8 amended: the rings as claimed; a row with no rings is still counted in
\* the level counts, and it is in the ranked table on the terms of any other
\* row: shown when it is the first row of its NAME and fewer than 20 first
\* rows of other names score as high, not shown when it repeats an earlier
\* row's NAME or 20 such rows score strictly higher.
C8_EmptyRowKeptLikeAnyRow ==
    FrameDone =>
        \A i \in 1..Len(counties) :
            /\ RingsOfGeometry(i)
            /\ EmptyRings(i) =>
                   /\ CountedInChart(i)
                   /\ (FirstOfName(i) /\ Cardinality(FirstRowsAbove(i, FALSE)) < TopN)
                          => InTable(i)
                   /\ InTable(i) =>
                          (FirstOfName(i) /\ Cardinality(FirstRowsAbove(i, TRUE)) < TopN)

\* More than 20 rows, among them a two-part MultiPolygon with its two rings
\* and a Point that made it into the table.
C8_Witness ==
    /\ FrameDone
    /\ Len(counties) > TopN
    /\ \E i \in 1..Len(counties) :
           /\ counties[i]["geometry"].geom_type = "MultiPolygon"
           /\ Len(counties[i]["coordinates"]) = 2
    /\ \E i \in 1..Len(counties) :
           /\ counties[i]["geometry"].geom_type = "Point"
           /\ counties[i]["coordinates"] = <<>>
           /\ InTable(i)

====
